---- MODULE Spec2Model ----
(***************************************************************************)
(* A model of sphinxcontrib_trio/__init__.py: the option sniffer that      *)
(* walks a callable's __wrapped__/__func__ chain, the merge of sniffed     *)
(* options into a documenter's option dict, the docstring metadata         *)
(* splitter, the option lines passed through to the generated directive,   *)
(* the signature prefix renderer and the rendering-time field filter.      *)
(*                                                                         *)
(* Python strings are sequences of one-character strings, so that strip,   *)
(* startswith, slicing, splitlines and the field-marker regular expression *)
(* are computed character by character.  Python's None is the value None   *)
(* below, which is no character sequence.                                  *)
(***************************************************************************)
EXTENDS Naturals, Sequences, FiniteSets

VARIABLES
    phase,        \* which operation of the program has run
    heap,         \* the Python objects: heap[i] may refer to lower indices
    sniffed,      \* the set returned by sniff_options(obj)
    explicit,     \* the options written on the auto-directive
    option_dict,  \* the documenter's self.options
    s,            \* the docstring handed to separate_metadata
    cleaned,      \* the text separate_metadata returns
    metadata,     \* the mapping it returns, as the dict's items in order
    objtype,      \* self.objtype of the documenter or directive
    result,       \* the lines passthrough_option_lines has added
    sig,          \* the signature a directive is given
    signode,      \* the signature node handle_signature fills
    prefix,       \* handle_signature's local prefix
    domain,       \* the domain filter_trio_fields is called for
    description,  \* the content nodes as the host built them
    content       \* the content nodes, which filter_trio_fields changes in place

sniffVars == <<heap, sniffed, explicit, option_dict>>
docVars == <<s, cleaned, metadata>>
dirVars == <<objtype, result, sig, signode, prefix>>
filterVars == <<domain, description, content>>
vars == <<phase, sniffVars, docVars, dirVars, filterVars>>

None == <<"None">>

(***************************************************************************)
(* Bounds of the model.                                                    *)
(***************************************************************************)
MaxChain == 3      \* objects on the heap (layers of decoration)
MaxAttrs == 2      \* truthy introspection results over the whole heap
MaxExplicit == 2   \* options written on one auto-directive
MaxLines == 3      \* lines of a docstring
MaxOptions == 3    \* options written on one directive
MaxNodes == 2      \* content nodes of one description
MaxFields == 3     \* fields of one field list

(***************************************************************************)
(* Python string operations, on sequences of characters                    *)
(***************************************************************************)
\* The alphabet holds two whitespace characters, the space and the line
\* break.
NL == "\n"
Whitespace == {" ", NL}

Drop(str, n) == SubSeq(str, n + 1, Len(str))
Take(str, n) == SubSeq(str, 1, n)

startswith(str, pre) ==
    Len(str) >= Len(pre) /\ Take(str, Len(pre)) = pre

RECURSIVE lstrip(_)
lstrip(str) ==
    IF str # <<>> /\ Head(str) \in Whitespace THEN lstrip(Tail(str)) ELSE str

RECURSIVE rstrip(_)
rstrip(str) ==
    IF str # <<>> /\ str[Len(str)] \in Whitespace
    THEN rstrip(Take(str, Len(str) - 1)) ELSE str

strip(str) == rstrip(lstrip(str))

\* str.splitlines(): the text between line breaks; a final line break
\* starts no further line.
RECURSIVE splitlines_from(_, _)
splitlines_from(str, cur) ==
    IF str = <<>> THEN (IF cur = <<>> THEN <<>> ELSE <<cur>>)
    ELSE IF Head(str) = NL THEN <<cur>> \o splitlines_from(Tail(str), <<>>)
    ELSE splitlines_from(Tail(str), Append(cur, Head(str)))

splitlines(str) == splitlines_from(str, <<>>)

\* "\n".join(lines)
RECURSIVE join(_)
join(lines) ==
    IF lines = <<>> THEN <<>>
    ELSE IF Len(lines) = 1 THEN lines[1]
    ELSE lines[1] \o <<NL>> \o join(Tail(lines))

\* The first index at or after i where str holds c, Len(str) + 1 if none.
RECURSIVE find(_, _, _)
find(str, c, i) ==
    IF i > Len(str) THEN Len(str) + 1
    ELSE IF str[i] = c THEN i ELSE find(str, c, i + 1)

(***************************************************************************)
(* sphinx.util.docstrings.prepare_docstring, called at line 369: the       *)
(* docstring's lines with the first line's indentation, the common margin  *)
(* of the later lines and the leading blank lines removed, and one empty   *)
(* line at the end.  (Tabs are outside the alphabet, so expandtabs is the  *)
(* identity here.)                                                         *)
(***************************************************************************)
\* sys.maxsize: longer than any line.
NoMargin == 1000

indent(line) == Len(line) - Len(lstrip(line))

\* The least indentation of the non-blank lines after the first, starting
\* from best (sys.maxsize, NoMargin above).
RECURSIVE margin_of(_, _)
margin_of(lines, best) ==
    IF lines = <<>> THEN best
    ELSE LET l == Head(lines)
             m == IF lstrip(l) # <<>> /\ indent(l) < best THEN indent(l) ELSE best
         IN  margin_of(Tail(lines), m)

RECURSIVE drop_leading_blank(_)
drop_leading_blank(lines) ==
    IF lines # <<>> /\ Head(lines) = <<>> THEN drop_leading_blank(Tail(lines))
    ELSE lines

prepare_docstring(str) ==
    LET lines == splitlines(str)
        margin == IF lines = <<>> THEN NoMargin ELSE margin_of(Tail(lines), NoMargin)
        first == IF lines = <<>> THEN <<>> ELSE <<lstrip(lines[1])>>
        rest == IF lines = <<>> THEN <<>>
                ELSE [i \in 1..(Len(lines) - 1) |->
                        IF margin < NoMargin THEN Drop(lines[i + 1], margin)
                        ELSE lines[i + 1]]
        body == drop_leading_blank(first \o rest)
    IN  IF body # <<>> /\ body[Len(body)] # <<>> THEN Append(body, <<>>) ELSE body

(***************************************************************************)
(* FIELD_LIST_ITEM_RE (line 256), docutils' field_marker pattern           *)
(*   :(?![: ])([^:\\]|\\.|:(?!([ `]|$)))*(?<! ):( +|$)                     *)
(* matched at the start of a line.  Every position of the body admits one  *)
(* alternative only, so the match is a single scan: field_marker_end is    *)
(* matched.end(), 0 when the line does not match.  (The backquote is       *)
(* outside the alphabet of the docstrings below.)                          *)
(***************************************************************************)
RECURSIVE count_spaces(_, _)
count_spaces(line, i) ==
    IF i <= Len(line) /\ line[i] = " " THEN 1 + count_spaces(line, i + 1) ELSE 0

RECURSIVE field_marker_scan(_, _)
field_marker_scan(line, p) ==
    IF p > Len(line) THEN 0
    ELSE IF line[p] = "\\"
         THEN (IF p + 1 <= Len(line) THEN field_marker_scan(line, p + 2) ELSE 0)
    ELSE IF line[p] = ":"
         THEN IF p = Len(line) \/ line[p + 1] = " "
              THEN (IF line[p - 1] # " " THEN p + count_spaces(line, p + 1) ELSE 0)
              ELSE field_marker_scan(line, p + 1)
    ELSE field_marker_scan(line, p + 1)

field_marker_end(line) ==
    IF Len(line) >= 2 /\ line[1] = ":" /\ line[2] \notin {":", " "}
    THEN field_marker_scan(line, 2)
    ELSE 0

\* matched.group()[1:].split(":", 1)[0]
field_name_of(line) == SubSeq(line, 2, find(line, ":", 2) - 1)

TRIO_PREFIX == <<"t", "r", "i", "o", " ">>

\* The test without the prefix's trailing space.
is_trio_field_lax(name) == startswith(name, Take(TRIO_PREFIX, Len(TRIO_PREFIX) - 1))

\* field_name.startswith("trio ")  (line 377)
is_trio_field(name) == startswith(name, TRIO_PREFIX)

(***************************************************************************)
(* separate_metadata (lines 358-386)                                       *)
(***************************************************************************)
\* metadata[name] = value on a dict kept as its items in insertion order.
RECURSIVE dict_set(_, _, _)
dict_set(items, key, value) ==
    IF items = <<>> THEN <<<<key, value>>>>
    ELSE IF Head(items)[1] = key THEN <<<<key, value>>>> \o Tail(items)
    ELSE <<Head(items)>> \o dict_set(Tail(items), key, value)

\* One pass of the loop body with a flag that a blank line does not clear.
metadata_step_no_reset(st, line) ==
    IF strip(line) = <<>>
    THEN [st EXCEPT !.lines = Append(@, line)]
    ELSE LET e == field_marker_end(line)
         IN  IF e > 0 /\ ~ st.in_other_element
             THEN IF is_trio_field(field_name_of(line))
                  THEN [st EXCEPT !.metadata =
                            dict_set(@, strip(Drop(field_name_of(line), 5)),
                                     strip(Drop(line, e)))]
                  ELSE [st EXCEPT !.lines = Append(@, line)]
             ELSE [st EXCEPT !.in_other_element = TRUE, !.lines = Append(@, line)]

\* One pass of the loop body (lines 370-384).
metadata_step(st, line) ==
    IF strip(line) = <<>>
    THEN [st EXCEPT !.in_other_element = FALSE, !.lines = Append(@, line)]
    ELSE LET e == field_marker_end(line)
         IN  IF e > 0 /\ ~ st.in_other_element
             THEN IF is_trio_field(field_name_of(line))
                  THEN [st EXCEPT !.metadata =
                            dict_set(@, strip(Drop(field_name_of(line), 5)),
                                     strip(Drop(line, e)))]
                  ELSE [st EXCEPT !.lines = Append(@, line)]
             ELSE [st EXCEPT !.in_other_element = TRUE, !.lines = Append(@, line)]

RECURSIVE metadata_loop(_, _)
metadata_loop(st, lines) ==
    IF lines = <<>> THEN st
    ELSE metadata_loop(metadata_step(st, Head(lines)), Tail(lines))

separate_metadata(str) ==
    IF str = <<>> THEN [text |-> str, metadata |-> <<>>]
    ELSE LET st == metadata_loop([in_other_element |-> FALSE, metadata |-> <<>>,
                                  lines |-> <<>>], prepare_docstring(str))
         IN  [text |-> join(st.lines), metadata |-> st.metadata]

(***************************************************************************)
(* The docstrings separate_metadata is given: up to MaxLines lines, each   *)
(* one of these, joined by line breaks.                                    *)
(***************************************************************************)
SampleLines ==
    { <<>>,
      <<" ", " ">>,
      <<"T", "e", "x", "t">>,
      <<" ", " ", "c", "o", "d", "e">>,
      <<":", "p", ":", " ", "y">>,
      <<":", "t", "r", "i", "o", " ", "w", "i", "t", "h", ":", " ", "r", "e", "s">>,
      <<":", "t", "r", "i", "o", " ", "a", "s", "y", "n", "c", ":">>,
      <<":", "t", "r", "i", "o", " ", "w", "i", "t", "h", ":", " ", " ", "b", " ">>,
      <<":", "t", "r", "i", "o", ":", " ", "x">>,
      <<" ", " ", ":", "t", "r", "i", "o", " ", "f", "o", "r", ":", " ", "i">>,
      <<":", "t", "r", "i", "o", " ", ":", "x", ":", " ", "v">> }

Docstrings ==
    {join(ls) : ls \in UNION {[1..n -> SampleLines] : n \in 0..MaxLines}}

DocIdle ==
    /\ s = <<>>
    /\ cleaned = <<>>
    /\ metadata = <<>>

DirIdle ==
    /\ objtype = "function"
    /\ result = <<>>
    /\ sig = <<>>
    /\ signode = <<>>
    /\ prefix = <<>>

FilterIdle ==
    /\ domain = "py"
    /\ description = <<>>
    /\ content = <<>>

SniffIdle ==
    /\ heap = <<>>
    /\ sniffed = {}
    /\ explicit = <<>>
    /\ option_dict = <<>>

Separate ==
    /\ phase = "docstring"
    /\ LET r == separate_metadata(s)
       IN  /\ cleaned' = r.text
           /\ metadata' = r.metadata
    /\ phase' = "separated"
    /\ UNCHANGED <<s, sniffVars, dirVars, filterVars>>

InitMeta ==
    /\ phase = "docstring"
    /\ s \in Docstrings
    /\ cleaned = <<>>
    /\ metadata = <<>>
    /\ SniffIdle
    /\ DirIdle
    /\ FilterIdle

NextMeta == Separate

SpecMeta == InitMeta /\ [][NextMeta]_vars

(***************************************************************************)
(* Callable sniffer                                                        *)
(***************************************************************************)
EXCLUSIVE_OPTIONS == {"async", "for", "async-for", "with", "async-with"}

\* What the sniffer can observe of one object.  CM_CODES and ACM_CODES hold
\* different code objects, so an object's __code__ is in at most one of
\* them; an object is an instance of at most one of classmethod and
\* staticmethod.
ObjectAttrs ==
    {"__isabstractmethod__", "isinstance classmethod", "isinstance staticmethod",
     "iscoroutinefunction", "isgeneratorfunction", "isasyncgenfunction",
     "__code__ in CM_CODES", "__code__ in ACM_CODES",
     "__returns_contextmanager__", "__returns_acontextmanager__"}

WellTyped(attrs) ==
    /\ ~ {"isinstance classmethod", "isinstance staticmethod"} \subseteq attrs
    /\ ~ {"__code__ in CM_CODES", "__code__ in ACM_CODES"} \subseteq attrs

\* The loop body with the exclusive checks made at every layer.
layer_options_unguarded(obj, options) ==
    LET a == obj.attrs
        o1 == options
              \cup (IF "__isabstractmethod__" \in a THEN {"abstractmethod"} ELSE {})
              \cup (IF "isinstance classmethod" \in a THEN {"classmethod"} ELSE {})
              \cup (IF "isinstance staticmethod" \in a THEN {"staticmethod"} ELSE {})
    IN  o1
        \cup (IF "iscoroutinefunction" \in a THEN {"async"}
              ELSE IF "isgeneratorfunction" \in a THEN {"for"} ELSE {})
        \cup (IF "isasyncgenfunction" \in a THEN {"async-for"} ELSE {})
        \cup (IF "__code__ in CM_CODES" \in a THEN {"with"} ELSE {})
        \cup (IF "__returns_contextmanager__" \in a THEN {"with"} ELSE {})
        \cup (IF "__code__ in ACM_CODES" \in a THEN {"async-with"} ELSE {})
        \cup (IF "__returns_acontextmanager__" \in a THEN {"async-with"} ELSE {})

\* One pass of the loop body (lines 263-289): the exclusive checks are made
\* only while no exclusive option has been collected.
layer_options(obj, options) ==
    LET a == obj.attrs
        o1 == options
              \cup (IF "__isabstractmethod__" \in a THEN {"abstractmethod"} ELSE {})
              \cup (IF "isinstance classmethod" \in a THEN {"classmethod"} ELSE {})
              \cup (IF "isinstance staticmethod" \in a THEN {"staticmethod"} ELSE {})
    IN  IF o1 \cap EXCLUSIVE_OPTIONS = {}
        THEN o1
             \cup (IF "iscoroutinefunction" \in a THEN {"async"}
                   ELSE IF "isgeneratorfunction" \in a THEN {"for"} ELSE {})
             \cup (IF "isasyncgenfunction" \in a THEN {"async-for"} ELSE {})
             \cup (IF "__code__ in CM_CODES" \in a THEN {"with"} ELSE {})
             \cup (IF "__returns_contextmanager__" \in a THEN {"with"} ELSE {})
             \cup (IF "__code__ in ACM_CODES" \in a THEN {"async-with"} ELSE {})
             \cup (IF "__returns_acontextmanager__" \in a THEN {"async-with"} ELSE {})
        ELSE o1

\* The end of the loop body (lines 290-295): the index of the next object,
\* 0 when the walk stops.  A field of 0 is an absent attribute.
next_obj(obj) ==
    IF obj.wrapped # 0 THEN obj.wrapped
    ELSE IF obj.func # 0 THEN obj.func
    ELSE 0

RECURSIVE sniff_walk(_, _, _)
sniff_walk(h, i, options) ==
    LET o == layer_options(h[i], options)
        n == next_obj(h[i])
    IN  IF n = 0 THEN o ELSE sniff_walk(h, n, o)

\* sniff_options(obj), obj being heap object i.
sniff_options(h, i) == sniff_walk(h, i, {})

(***************************************************************************)
(* The objects the sniffer is given.  An object is defined on top of the   *)
(* objects that exist already (a decorator, classmethod() or a bound       *)
(* method wraps an existing object), so its __wrapped__ and __func__ refer *)
(* to lower heap indices and every chain is finite and acyclic.  A bound   *)
(* method of a functools.wraps-decorated function has both attributes,     *)
(* and they refer to different objects.                                    *)
(***************************************************************************)
Links(n) ==
    IF n = 0 THEN {<<0, 0>>}
    ELSE {<<n, 0>>, <<0, n>>, <<n, n>>}
         \cup (IF n >= 2 THEN {<<n - 1, n>>} ELSE {})

ObjWeight(obj) ==
    Cardinality(obj.attrs) + (IF obj.wrapped # 0 /\ obj.func # 0 THEN 1 ELSE 0)

RECURSIVE HeapWeight(_)
HeapWeight(h) ==
    IF h = <<>> THEN 0 ELSE ObjWeight(Head(h)) + HeapWeight(Tail(h))

Top(h) == Len(h)

\* The attribute sets of weight at most k, for every budget k.
AttrsUpTo ==
    [k \in 0..MaxAttrs |->
        {a \in SUBSET ObjectAttrs : Cardinality(a) <= k /\ WellTyped(a)}]

Define(attrs, link) ==
    /\ phase = "define"
    /\ Len(heap) < MaxChain
    /\ LET obj == [attrs |-> attrs, wrapped |-> link[1], func |-> link[2]]
       IN  /\ HeapWeight(heap) + ObjWeight(obj) <= MaxAttrs
           /\ heap' = Append(heap, obj)
    /\ UNCHANGED <<phase, sniffed, explicit, option_dict, docVars, dirVars, filterVars>>

Sniff ==
    /\ phase = "define"
    /\ heap # <<>>
    /\ sniffed' = sniff_options(heap, Top(heap))
    /\ phase' = "sniffed"
    /\ UNCHANGED <<heap, explicit, option_dict, docVars, dirVars, filterVars>>

InitSniff ==
    /\ phase = "define"
    /\ heap = <<>>
    /\ sniffed = {}
    /\ explicit = <<>>
    /\ option_dict = <<>>
    /\ DocIdle
    /\ DirIdle
    /\ FilterIdle

NextSniff ==
    \/ \E attrs \in AttrsUpTo[MaxAttrs - HeapWeight(heap)] :
           \E link \in Links(Len(heap)) : Define(attrs, link)
    \/ Sniff

SpecSniff == InitSniff /\ [][NextSniff]_vars

(***************************************************************************)
(* Merging the sniffed options into the documenter's options               *)
(***************************************************************************)
\* extended_function_option_spec, extended_method_option_spec and
\* autodoc_option_spec: the converter of each option.
FunctionOptions == {"async", "decorator", "with", "async-with", "for", "async-for"}
MethodOptions ==
    FunctionOptions \cup {"abstractmethod", "staticmethod", "classmethod", "property"}
AutodocOptions == {"no-auto-options"}
UnchangedOptions == {"with", "async-with", "for", "async-for"}

\* A dict is a function from its keys.  Plain assignment d[key] = default:
setdefault_overwriting(d, key, default) ==
    [k \in DOMAIN d \cup {key} |-> IF k = key THEN default ELSE d[k]]

\* dict.setdefault(key, default)
setdefault(d, key, default) ==
    [k \in DOMAIN d \cup {key} |-> IF k \in DOMAIN d THEN d[k] ELSE default]

\* The loop of lines 304-312 over the sniffed set; the order in which a set
\* is iterated does not matter to setdefault on distinct keys.
RECURSIVE setdefault_all(_, _)
setdefault_all(d, keys) ==
    IF keys = {} THEN d
    ELSE LET k == CHOOSE x \in keys : TRUE
         IN  setdefault_all(setdefault(d, k, None), keys \ {k})

\* The merge without the early return of lines 301-302.
update_always(h, i, d) == setdefault_all(d, sniff_options(h, i))

\* update_with_sniffed_options(obj, option_dict), obj being heap object i.
update_with_sniffed_options(h, i, d) ==
    IF "no-auto-options" \in DOMAIN d THEN d
    ELSE setdefault_all(d, sniff_options(h, i))

\* The option dicts a documenter can receive: directives.flag converts to
\* None, directives.unchanged to the text written ("" when there is none).
OptionValues(k) == IF k \in UnchangedOptions THEN {<<>>, <<"x">>} ELSE {None}

Dicts(keys) == {d \in [keys -> {None, <<>>, <<"x">>}] : \A k \in keys : d[k] \in OptionValues(k)}

ExplicitDicts ==
    UNION {Dicts(keys) : keys \in {ks \in SUBSET (MethodOptions \cup AutodocOptions) :
                                        Cardinality(ks) <= MaxExplicit}}

\* ExtendedFunctionDocumenter.import_object / ExtendedMethodDocumenter.import_object:
\* self.options is copied, then updated with what the object shows.
import_object ==
    /\ phase = "define"
    /\ heap # <<>>
    /\ option_dict' = update_with_sniffed_options(heap, Top(heap), option_dict)
    /\ phase' = "imported"
    /\ UNCHANGED <<heap, sniffed, explicit, docVars, dirVars, filterVars>>

InitUpdate ==
    /\ phase = "define"
    /\ heap = <<>>
    /\ sniffed = {}
    /\ explicit \in ExplicitDicts
    /\ option_dict = explicit
    /\ DocIdle
    /\ DirIdle
    /\ FilterIdle

\* The merge reads the object through sniff_options alone, whose walk
\* SpecSniff covers; here the documented object is a single callable.
NextUpdate ==
    \/ \E attrs \in AttrsUpTo[MaxAttrs] : heap = <<>> /\ Define(attrs, <<0, 0>>)
    \/ import_object

SpecUpdate == InitUpdate /\ [][NextUpdate]_vars

(***************************************************************************)
(* Claims about the sniffer and the merge                                  *)
(***************************************************************************)
NonExclusive == {"abstractmethod", "classmethod", "staticmethod"}

\* The indices sniff_options visits from object i: the next one is
\* __wrapped__ when present, else __func__ when present.
RECURSIVE ChainFrom(_, _)
ChainFrom(h, i) ==
    LET nxt == IF h[i].wrapped # 0 THEN h[i].wrapped ELSE h[i].func
    IN  IF nxt = 0 THEN <<i>> ELSE <<i>> \o ChainFrom(h, nxt)

\* What the checks of one layer detect on that layer alone.
DetectedAt(obj) == layer_options(obj, {})

\* C1: sniff_options returns at most one element of EXCLUSIVE_OPTIONS.
C1_AtMostOneExclusive ==
    phase = "sniffed" => Cardinality(sniffed \cap EXCLUSIVE_OPTIONS) <= 1

\* C2: the non-exclusive tags of the result are the union of those detected
\* at every layer of the chain, and the exclusive tags are those detected at
\* the first layer of the chain that detects any; none comes from deeper.
C2_UnionAndOutermost ==
    phase = "sniffed" =>
        LET chain == ChainFrom(heap, Top(heap))
            hits == {n \in 1..Len(chain) :
                        DetectedAt(heap[chain[n]]) \cap EXCLUSIVE_OPTIONS # {}}
        IN  /\ sniffed \ EXCLUSIVE_OPTIONS =
                 UNION {DetectedAt(heap[chain[n]]) \cap NonExclusive : n \in 1..Len(chain)}
            /\ IF hits = {} THEN sniffed \cap EXCLUSIVE_OPTIONS = {}
               ELSE LET first == CHOOSE n \in hits : \A m \in hits : n <= m
                    IN  sniffed \cap EXCLUSIVE_OPTIONS =
                            DetectedAt(heap[chain[first]]) \cap EXCLUSIVE_OPTIONS

\* A walk of two layers or more in which a deeper layer shows an exclusive
\* tag the outer one did not, and which the result leaves out.
C2_Witness ==
    /\ phase = "sniffed"
    /\ LET chain == ChainFrom(heap, Top(heap))
       IN  /\ Len(chain) >= 2
           /\ sniffed \cap EXCLUSIVE_OPTIONS # {}
           /\ \E n \in 2..Len(chain) :
                  /\ DetectedAt(heap[chain[n]]) \cap EXCLUSIVE_OPTIONS # {}
                  /\ ~ (DetectedAt(heap[chain[n]]) \subseteq sniffed)

\* C3: without no-auto-options, every key already present keeps its value,
\* every sniffed tag that was absent is added with None, and no other key
\* is added.
C3_SetdefaultMerge ==
    (phase = "imported" /\ "no-auto-options" \notin DOMAIN explicit) =>
        /\ DOMAIN option_dict = DOMAIN explicit \cup sniff_options(heap, Top(heap))
        /\ \A k \in DOMAIN explicit : option_dict[k] = explicit[k]
        /\ \A k \in DOMAIN option_dict \ DOMAIN explicit : option_dict[k] = None

\* An explicit bound name for a tag that is sniffed as well.
C3_Witness ==
    /\ phase = "imported"
    /\ "no-auto-options" \notin DOMAIN explicit
    /\ "for" \in DOMAIN explicit
    /\ explicit["for"] = <<"x">>
    /\ "for" \in sniff_options(heap, Top(heap))
    /\ DOMAIN option_dict # DOMAIN explicit

\* C10: with no-auto-options present, import leaves the options as written.
C10_NoAutoOptions ==
    (phase = "imported" /\ "no-auto-options" \in DOMAIN explicit) =>
        option_dict = explicit

\* no-auto-options on an object that does show tags the directive lacks.
C10_Witness ==
    /\ phase = "imported"
    /\ "no-auto-options" \in DOMAIN explicit
    /\ ~ (sniff_options(heap, Top(heap)) \subseteq DOMAIN explicit)

(***************************************************************************)
(* Claims about separate_metadata                                          *)
(***************************************************************************)
IsBlank(line) == strip(line) = <<>>
IsMarker(line) == ~ IsBlank(line) /\ field_marker_end(line) > 0
IsTrio(line) == IsMarker(line) /\ startswith(field_name_of(line), TRIO_PREFIX)

\* No line of the docstring, as written (its indentation aside) or as
\* prepare_docstring normalises it, is a field whose name starts "trio ".
NoTrioLine(lines) == \A i \in 1..Len(lines) : ~ IsTrio(lstrip(lines[i]))
NoTrioField(str) == NoTrioLine(splitlines(str)) /\ NoTrioLine(prepare_docstring(str))

\* C5 as stated: a docstring with no field named "trio ..." comes back
\* unchanged, with an empty mapping.
C5_Unchanged ==
    (phase = "separated" /\ NoTrioField(s)) => (cleaned = s /\ metadata = <<>>)

\* C5 as amended: a docstring none of whose normalised lines is a field
\* named "trio ..." yields an empty mapping, and the text is the docstring
\* itself when it is empty and otherwise its lines as prepare_docstring
\* normalises them, joined by line breaks.
C5_Normalised ==
    (phase = "separated" /\ \A i \in 1..Len(prepare_docstring(s)) :
                                ~ IsTrio(prepare_docstring(s)[i])) =>
        /\ metadata = <<>>
        /\ cleaned = IF s = <<>> THEN s ELSE join(prepare_docstring(s))

\* A docstring without such a field, holding another field, that the
\* normalisation changes.
C5_Witness ==
    /\ phase = "separated"
    /\ NoTrioField(s)
    /\ \E i \in 1..Len(splitlines(s)) : IsMarker(splitlines(s)[i])
    /\ cleaned # s
    /\ cleaned # <<>>

\* A non-blank line that is no field marker has been seen before line i,
\* with no blank line between it and line i.
InOtherElement(ls, i) ==
    \E j \in 1..(i - 1) :
        /\ ~ IsBlank(ls[j])
        /\ ~ IsMarker(ls[j])
        /\ \A k \in (j + 1)..(i - 1) : ~ IsBlank(ls[k])

ExtractedLines(ls) == {i \in 1..Len(ls) : IsTrio(ls[i]) /\ ~ InOtherElement(ls, i)}

RECURSIVE KeptFrom(_, _, _)
KeptFrom(ls, i, dropped) ==
    IF i > Len(ls) THEN <<>>
    ELSE (IF i \in dropped THEN <<>> ELSE <<ls[i]>>) \o KeptFrom(ls, i + 1, dropped)

TagName(line) == strip(Drop(field_name_of(line), Len(TRIO_PREFIX)))
TagValue(line) == strip(Drop(line, field_marker_end(line)))

\* C6: a "trio ..." field line is extracted (tag name -> stripped remainder)
\* and dropped exactly when no non-blank non-field line precedes it since
\* the last blank line; every other line is kept, in order; a field named
\* exactly "trio" is never extracted.
C6_ExtractedIff ==
    (phase = "separated" /\ s # <<>>) =>
        LET ls == prepare_docstring(s)
            ext == ExtractedLines(ls)
        IN  /\ cleaned = join(KeptFrom(ls, 1, ext))
            /\ {metadata[n][1] : n \in 1..Len(metadata)} = {TagName(ls[i]) : i \in ext}
            /\ \A m, n \in 1..Len(metadata) : metadata[m][1] = metadata[n][1] => m = n
            /\ \A n \in 1..Len(metadata) :
                   LET same == {i \in ext : TagName(ls[i]) = metadata[n][1]}
                       last == CHOOSE i \in same : \A j \in same : j <= i
                   IN  metadata[n][2] = TagValue(ls[last])
            /\ \A i \in 1..Len(ls) :
                   field_name_of(ls[i]) = Take(TRIO_PREFIX, 4) => i \notin ext

\* One "trio ..." line is extracted and another, inside a paragraph, is kept.
C6_Witness ==
    /\ phase = "separated"
    /\ s # <<>>
    /\ LET ls == prepare_docstring(s)
       IN  /\ ExtractedLines(ls) # {}
           /\ \E i \in 1..Len(ls) : IsTrio(ls[i]) /\ InOtherElement(ls, i)
    /\ metadata # <<>>

(***************************************************************************)
(* passthrough_option_lines (lines 315-339)                                *)
(***************************************************************************)
\* The option specs as the dicts are written, in their iteration order.
extended_function_option_spec ==
    <<"async", "decorator", "with", "async-with", "for", "async-for">>
extended_method_option_spec ==
    extended_function_option_spec
    \o <<"abstractmethod", "staticmethod", "classmethod", "property">>

\* An option's name as text.
OptionText(o) ==
    CASE o = "async" -> <<"a", "s", "y", "n", "c">>
      [] o = "decorator" -> <<"d", "e", "c", "o", "r", "a", "t", "o", "r">>
      [] o = "with" -> <<"w", "i", "t", "h">>
      [] o = "async-with" -> <<"a", "s", "y", "n", "c", "-", "w", "i", "t", "h">>
      [] o = "for" -> <<"f", "o", "r">>
      [] o = "async-for" -> <<"a", "s", "y", "n", "c", "-", "f", "o", "r">>
      [] o = "abstractmethod" -> <<"a", "b", "s", "t", "r", "a", "c", "t", "m", "e", "t", "h", "o", "d">>
      [] o = "staticmethod" -> <<"s", "t", "a", "t", "i", "c", "m", "e", "t", "h", "o", "d">>
      [] o = "classmethod" -> <<"c", "l", "a", "s", "s", "m", "e", "t", "h", "o", "d">>
      [] o = "property" -> <<"p", "r", "o", "p", "e", "r", "t", "y">>

Range(seq) == {seq[i] : i \in 1..Len(seq)}

\* "   :{}: {}".format(name, value) and "   :{}:".format(name)
option_line(name, value) == <<" ", " ", " ", ":">> \o name \o <<":", " ">> \o value
flag_line(name) == <<" ", " ", " ", ":">> \o name \o <<":">>

\* Sphinx's Documenter.get_doc(): the docstring's prepared lines, or nothing.
get_doc(docstring) ==
    IF docstring = <<>> THEN <<>> ELSE <<prepare_docstring(docstring)>>

RECURSIVE sum_lists(_)
sum_lists(lists) ==
    IF lists = <<>> THEN <<>> ELSE Head(lists) \o sum_lists(Tail(lists))

\* The first loop (lines 317-323).
RECURSIVE options_lines(_, _)
options_lines(spec, opts) ==
    IF spec = <<>> THEN <<>>
    ELSE LET o == Head(spec)
         IN  (IF o \in DOMAIN opts
              THEN (IF opts[o] # None THEN <<option_line(OptionText(o), opts[o])>>
                    ELSE <<flag_line(OptionText(o))>>)
              ELSE <<>>)
             \o options_lines(Tail(spec), opts)

\* The second loop (lines 332-339).
RECURSIVE metadata_lines(_, _)
metadata_lines(items, available) ==
    IF items = <<>> THEN <<>>
    ELSE LET name == Head(items)[1]
             value == Head(items)[2]
         IN  (IF \A o \in Range(available) : OptionText(o) # name THEN <<>>
              ELSE IF value # <<>> THEN <<option_line(name, value)>>
              ELSE <<flag_line(name)>>)
             \o metadata_lines(Tail(items), available)

passthrough_option_lines ==
    /\ phase = "header"
    /\ LET option_spec == IF objtype = "method" THEN extended_method_option_spec
                          ELSE extended_function_option_spec
           first == options_lines(option_spec, option_dict)
           doc == get_doc(s)
           r == separate_metadata(join(sum_lists(doc)))
           available_options == IF objtype = "method" THEN extended_method_option_spec
                                ELSE extended_function_option_spec
       IN  IF doc = <<>>
           THEN /\ result' = first
                /\ UNCHANGED <<cleaned, metadata>>
           ELSE /\ result' = first \o metadata_lines(r.metadata, available_options)
                /\ cleaned' = r.text
                /\ metadata' = r.metadata
    /\ phase' = "emitted"
    /\ UNCHANGED <<heap, sniffed, explicit, option_dict, s, objtype, sig, signode,
                   prefix, filterVars>>

\* self.options once import_object has run: what the directive said, and
\* the sniffed tags with None.
ImportedValues(k) == IF k \in UnchangedOptions THEN {None, <<>>, <<"x">>} ELSE {None}

ImportedDicts ==
    UNION {{d \in [keys -> {None, <<>>, <<"x">>}] : \A k \in keys : d[k] \in ImportedValues(k)} :
              keys \in {ks \in SUBSET MethodOptions : Cardinality(ks) <= MaxExplicit}}

PassLines ==
    { <<>>,
      <<"T", "e", "x", "t">>,
      <<":", "t", "r", "i", "o", " ", "w", "i", "t", "h", ":", " ", "r", "e", "s">>,
      <<":", "t", "r", "i", "o", " ", "a", "s", "y", "n", "c", ":">>,
      <<":", "t", "r", "i", "o", " ", "c", "l", "a", "s", "s", "m", "e", "t", "h", "o", "d", ":">>,
      <<":", "t", "r", "i", "o", " ", "b", "o", "g", "u", "s", ":", " ", "1">> }

PassDocstrings ==
    {join(ls) : ls \in UNION {[1..n -> PassLines] : n \in 0..MaxLines}}

InitPass ==
    /\ phase = "header"
    /\ heap = <<>>
    /\ sniffed = {}
    /\ explicit = <<>>
    /\ option_dict \in ImportedDicts
    /\ s \in PassDocstrings
    /\ cleaned = <<>>
    /\ metadata = <<>>
    /\ objtype \in {"function", "method"}
    /\ result = <<>>
    /\ sig = <<>>
    /\ signode = <<>>
    /\ prefix = <<>>
    /\ FilterIdle

NextPass == passthrough_option_lines

SpecPass == InitPass /\ [][NextPass]_vars

\* The emitted lines that set option o.
LinesFor(o) ==
    {n \in 1..Len(result) : startswith(result[n], flag_line(OptionText(o)))}

\* C4: every tag is emitted at most once, and a tag that self.options and
\* the docstring both give is emitted with the value of self.options.
C4_ExplicitOverridesDocstring ==
    phase = "emitted" =>
        \A o \in Range(extended_method_option_spec) :
            /\ Cardinality(LinesFor(o)) <= 1
            /\ (o \in DOMAIN option_dict
                /\ \E n \in 1..Len(metadata) : metadata[n][1] = OptionText(o))
               => \A n \in LinesFor(o) :
                      result[n] = IF option_dict[o] # None
                                  THEN option_line(OptionText(o), option_dict[o])
                                  ELSE flag_line(OptionText(o))

(***************************************************************************)
(* The extended directives (lines 128-212)                                 *)
(***************************************************************************)
\* needs_arglist without the directive names of line 133.
needs_arglist_options_only(opts, ot) ==
    IF "property" \in DOMAIN opts THEN FALSE
    ELSE IF "decorator" \in DOMAIN opts THEN FALSE
    ELSE TRUE

needs_arglist(opts, ot) ==
    IF "property" \in DOMAIN opts THEN FALSE
    ELSE IF "decorator" \in DOMAIN opts \/ ot \in {"decorator", "decoratormethod"}
         THEN FALSE
    ELSE TRUE

\* The name tested with "if not name".
for_name_unstripped(opts, for_type) ==
    IF opts[for_type] = <<>> THEN <<".", ".", ".">> ELSE opts[for_type]

\* Lines 176-178: the loop variable's name, "..." when it is blank.
for_name(opts, for_type) ==
    IF strip(opts[for_type]) = <<>> THEN <<".", ".", ".">> ELSE opts[for_type]

\* "{} {} in ".format(render, name)
for_clause(render, name) == render \o <<" ">> \o name \o <<" ", "i", "n", " ">>

_get_signature_prefix(opts, ot) ==
    LET r0 == <<>>
        r1 == IF "abstractmethod" \in DOMAIN opts THEN r0 \o <<"a", "b", "s", "t", "r", "a", "c", "t", "m", "e", "t", "h", "o", "d", " ">> ELSE r0
        r2 == IF "staticmethod" \in DOMAIN opts \/ ot = "staticmethod"
              THEN r1 \o <<"s", "t", "a", "t", "i", "c", "m", "e", "t", "h", "o", "d", " ">> ELSE r1
        r3 == IF "classmethod" \in DOMAIN opts \/ ot = "classmethod"
              THEN r2 \o <<"c", "l", "a", "s", "s", "m", "e", "t", "h", "o", "d", " ">> ELSE r2
        r4 == IF "with" \in DOMAIN opts THEN r3 \o <<"w", "i", "t", "h", " ">> ELSE r3
        r5 == IF "async-with" \in DOMAIN opts THEN r4 \o <<"a", "s", "y", "n", "c", " ", "w", "i", "t", "h", " ">> ELSE r4
        r6 == IF "for" \in DOMAIN opts
              THEN r5 \o for_clause(<<"f", "o", "r">>, for_name(opts, "for")) ELSE r5
        r7 == IF "async-for" \in DOMAIN opts
              THEN r6 \o for_clause(<<"a", "s", "y", "n", "c", " ", "f", "o", "r">>, for_name(opts, "async-for")) ELSE r6
    IN  IF "async" \in DOMAIN opts THEN r7 \o <<"a", "w", "a", "i", "t", " ">> ELSE r7

desc_addname(text) == [node |-> "desc_addname", text |-> text]
desc_annotation(text) == [node |-> "desc_annotation", text |-> text]
desc_name(text) == [node |-> "desc_name", text |-> text]
desc_parameterlist(text) == [node |-> "desc_parameterlist", text |-> text]

\* Sphinx's PyObject.handle_signature, called at line 191 with
\* get_signature_prefix overridden to return "": the name, then the
\* argument list when one is written or needs_arglist() asks for one.
super_handle_signature(sg, opts, ot) ==
    <<desc_name(sg.name)>>
    \o (IF sg.arglist # None THEN <<desc_parameterlist(sg.arglist)>>
        ELSE IF needs_arglist(opts, ot) THEN <<desc_parameterlist(<<>>)>>
        ELSE <<>>)

\* self.options.get(optname, "")
options_get(opts, optname) == IF optname \in DOMAIN opts THEN opts[optname] ELSE <<>>

\* The suffix loop (lines 205-210); the first character is U+00A0.
suffix_nodes(opts) ==
    LET one(optname) ==
            IF strip(options_get(opts, optname)) # <<>>
            THEN <<desc_annotation(<<"U+00A0", "a", "s", " ">> \o opts[optname])>>
            ELSE <<>>
    IN  one("with") \o one("async-with")

handle_signature ==
    /\ phase = "directive"
    /\ LET base == super_handle_signature(sig, option_dict, objtype)
           marked == IF "decorator" \in DOMAIN option_dict
                        \/ objtype \in {"decorator", "decoratormethod"}
                     THEN <<desc_addname(<<"@">>)>> \o base ELSE base
           pre == _get_signature_prefix(option_dict, objtype)
           prefixed == IF pre # <<>> THEN <<desc_annotation(pre)>> \o marked ELSE marked
       IN  /\ prefix' = pre
           /\ signode' = prefixed \o suffix_nodes(option_dict)
    /\ phase' = "rendered"
    /\ UNCHANGED <<sniffVars, docVars, objtype, result, sig, filterVars>>

\* The options a directive can carry: each directive name with its class's
\* option_spec (lines 215-240, 454-459), a flag as None and an unchanged
\* option as the text written.
DirectiveSpec(ot) ==
    IF ot \in {"function", "decorator"} THEN FunctionOptions ELSE MethodOptions

DirectiveValues(k) ==
    IF k \in UnchangedOptions THEN {<<>>, <<" ">>, <<"b", "a", "r">>} ELSE {None}

DirectiveDicts(ot) ==
    UNION {{d \in [keys -> {None, <<>>, <<" ">>, <<"b", "a", "r">>}] :
                \A k \in keys : d[k] \in DirectiveValues(k)} :
              keys \in {ks \in SUBSET DirectiveSpec(ot) : Cardinality(ks) <= MaxOptions}}

Signatures ==
    {[name |-> <<"f", "o", "o">>, arglist |-> None],
     [name |-> <<"f", "o", "o">>, arglist |-> <<"x", ",", " ", "y">>]}

InitRender ==
    /\ phase = "directive"
    /\ heap = <<>>
    /\ sniffed = {}
    /\ explicit = <<>>
    /\ objtype \in {"function", "method", "classmethod", "staticmethod",
                    "decorator", "decoratormethod"}
    /\ option_dict \in DirectiveDicts(objtype)
    /\ DocIdle
    /\ result = <<>>
    /\ sig \in Signatures
    /\ signode = <<>>
    /\ prefix = <<>>
    /\ FilterIdle

NextRender == handle_signature

SpecRender == InitRender /\ [][NextRender]_vars

\* The word or words of each tag, in the order of the claim; a loop name
\* made of spaces only (or empty) reads "...".
WordsInOrder ==
    LET has(o) == o \in DOMAIN option_dict
        name(o) == IF \A n \in 1..Len(option_dict[o]) : option_dict[o][n] = " "
                   THEN <<".", ".", ".">> ELSE option_dict[o]
    IN  << IF has("abstractmethod") THEN <<"a", "b", "s", "t", "r", "a", "c", "t", "m", "e", "t", "h", "o", "d", " ">> ELSE <<>>,
           IF has("staticmethod") \/ objtype = "staticmethod" THEN <<"s", "t", "a", "t", "i", "c", "m", "e", "t", "h", "o", "d", " ">> ELSE <<>>,
           IF has("classmethod") \/ objtype = "classmethod" THEN <<"c", "l", "a", "s", "s", "m", "e", "t", "h", "o", "d", " ">> ELSE <<>>,
           IF has("with") THEN <<"w", "i", "t", "h", " ">> ELSE <<>>,
           IF has("async-with") THEN <<"a", "s", "y", "n", "c", " ", "w", "i", "t", "h", " ">> ELSE <<>>,
           IF has("for") THEN <<"f", "o", "r">> \o <<" ">> \o name("for") \o <<" ", "i", "n", " ">> ELSE <<>>,
           IF has("async-for") THEN <<"a", "s", "y", "n", "c", " ", "f", "o", "r">> \o <<" ">> \o name("async-for") \o <<" ", "i", "n", " ">> ELSE <<>>,
           IF has("async") THEN <<"a", "w", "a", "i", "t", " ">> ELSE <<>> >>

\* C7: the prefix is the concatenation, in this order, of the words of the
\* tags present, the loop name being "..." when it is blank; the tags
\* abstractmethod, classmethod and async give "abstractmethod classmethod await ".
C7_PrefixOrder ==
    phase = "rendered" =>
        /\ prefix = sum_lists(WordsInOrder)
        /\ (DOMAIN option_dict = {"abstractmethod", "classmethod", "async"}
            /\ objtype = "method")
           => prefix = <<"a", "b", "s", "t", "r", "a", "c", "t", "m", "e", "t", "h", "o", "d", " ", "c", "l", "a", "s", "s", "m", "e", "t", "h", "o", "d", " ", "a", "w", "a", "i", "t", " ">>

\* The documented example, and a loop name that is blank.
C7_Witness ==
    /\ phase = "rendered"
    /\ objtype = "method"
    /\ \/ DOMAIN option_dict = {"abstractmethod", "classmethod", "async"}
       \/ /\ DOMAIN option_dict = {"staticmethod", "for", "async"}
          /\ option_dict["for"] = <<" ">>
    /\ prefix # <<>>

\* C8: the "@" node is inserted exactly when the decorator option is
\* present or the directive is decorator or decoratormethod, after the
\* prefix annotation and before the name; needs_arglist is False exactly
\* then or when the property option is present.
C8_DecoratorMarker ==
    phase = "rendered" =>
        LET marker == \/ "decorator" \in DOMAIN option_dict
                      \/ objtype \in {"decorator", "decoratormethod"}
            ats == {n \in 1..Len(signode) : signode[n] = desc_addname(<<"@">>)}
            names == {n \in 1..Len(signode) : signode[n].node = "desc_name"}
        IN  /\ (ats # {}) <=> marker
            /\ marker =>
                  /\ ats = {IF prefix # <<>> THEN 2 ELSE 1}
                  /\ prefix # <<>> => signode[1] = desc_annotation(prefix)
                  /\ \A n \in names : \A a \in ats : a < n
            /\ needs_arglist(option_dict, objtype)
                   <=> ~ (marker \/ "property" \in DOMAIN option_dict)

\* A decorator directive without the option, with a prefix and a written
\* argument list.
C8_Witness ==
    /\ phase = "rendered"
    /\ objtype = "decoratormethod"
    /\ "decorator" \notin DOMAIN option_dict
    /\ prefix # <<>>
    /\ sig.arglist # None
    /\ Len(signode) >= 3
    /\ signode[2] = desc_addname(<<"@">>)

(***************************************************************************)
(* filter_trio_fields (lines 342-355)                                      *)
(***************************************************************************)
\* field_name == "trio" or field_name.startswith("trio ")
is_trio_name(name) ==
    name = Take(TRIO_PREFIX, 4) \/ startswith(name, TRIO_PREFIX)

\* The inner loop over one field list: the first such field is removed and
\* the loop is left.
RECURSIVE filter_field_list(_)
filter_field_list(fields) ==
    IF fields = <<>> THEN <<>>
    ELSE IF is_trio_name(strip(Head(fields))) THEN Tail(fields)
    ELSE <<Head(fields)>> \o filter_field_list(Tail(fields))

filter_trio_fields ==
    /\ phase = "transform"
    /\ content' =
         IF domain # "py" THEN content
         ELSE [n \in 1..Len(content) |->
                 IF content[n].node = "field_list"
                 THEN [content[n] EXCEPT !.fields = filter_field_list(@)]
                 ELSE content[n]]
    /\ phase' = "filtered"
    /\ UNCHANGED <<sniffVars, docVars, dirVars, domain, description>>

\* The content of a description: paragraphs and field lists, a field being
\* its name.
FieldNames == { <<"t", "r", "i", "o">>, <<"t", "r", "i", "o", " ", "w", "i", "t", "h">>, <<" ", "t", "r", "i", "o", " ", "f", "o", "r", " ">>, <<"p", "a", "r", "a", "m", " ", "x">> }

FieldLists ==
    {[node |-> "field_list", fields |-> fs] :
        fs \in UNION {[1..n -> FieldNames] : n \in 0..MaxFields}}

Nodes == FieldLists \cup {[node |-> "paragraph", fields |-> <<>>]}

InitFilter ==
    /\ phase = "transform"
    /\ SniffIdle
    /\ DocIdle
    /\ DirIdle
    /\ domain \in {"py", "std"}
    /\ description \in UNION {[1..n -> Nodes] : n \in 0..MaxNodes}
    /\ content = description

NextFilter == filter_trio_fields

SpecFilter == InitFilter /\ [][NextFilter]_vars

RECURSIVE WithoutTrio(_)
WithoutTrio(fields) ==
    IF fields = <<>> THEN <<>>
    ELSE (IF is_trio_name(strip(Head(fields))) THEN <<>> ELSE <<Head(fields)>>)
         \o WithoutTrio(Tail(fields))

\* C9: for the py domain every field list is left with its fields that are
\* not named "trio" or "trio ...", all of them, in order; for another
\* domain the content is unchanged.
C9_AllTrioFieldsRemoved ==
    phase = "filtered" =>
        IF domain = "py"
        THEN /\ Len(content) = Len(description)
             /\ \A n \in 1..Len(content) :
                    /\ content[n].node = description[n].node
                    /\ content[n].fields = WithoutTrio(description[n].fields)
        ELSE content = description

====
